---- MODULE Spec2Model ----
(***************************************************************************)
(* Capacity-extension optimisation of urbs-extension and its rolling       *)
(* horizon.                                                                *)
(*                                                                         *)
(* The pyomo model of one window is a constraint system over variables     *)
(* indexed by (stf, location, tech).  Every rule of the extension is       *)
(* stated per (location, tech) pair and couples years only backwards       *)
(* (stf-1, stf-l, sums over years <= stf), so a feasible assignment is     *)
(* built one year at a time: AssignYear extends the assignment by the      *)
(* next year with any values that satisfy every rule at that index.  The   *)
(* reachable states are exactly the feasible prefixes for one              *)
(* (location, tech) pair; the solver returns one of the complete ones.     *)
(*                                                                         *)
(* Quantities are integers (MW, tons, EUR).  An equality rule is modelled  *)
(* in solved form: the rule's operator gives the value the constrained     *)
(* variable must take.  An inequality rule is a guard.  Fractional         *)
(* coefficients are cross-multiplied (0.5 -> 1/2, 0.4 -> 2/5,              *)
(* 0.00000015 -> 3/20000000); an assignment whose exact value is not an    *)
(* integer is off the grid and is not enumerated.                          *)
(*                                                                         *)
(* The battery rules (stockpile.py 328-348) couple technologies through    *)
(* factor_bess, whose default 0 makes them vacuous; they, the energy       *)
(* balance bridge and the yearly cost definitions (free non-negative       *)
(* auxiliaries with cost inputs above the largest price reduction) do not  *)
(* restrict the variables modelled here.                                   *)
(***************************************************************************)
EXTENDS Integers, Sequences, FiniteSets, TLC

\* no carry-over dictionary
None == <<>>

(***************************************************************************)
(* Horizon of run_rolling_horizon(start_year, end_year, step).             *)
(***************************************************************************)
start_year == 2024
end_year == 2026
step == 1

\* the hard-coded global start year of the ramp rules
GLOBAL_START == 2024

(***************************************************************************)
(* Static inputs.                                                          *)
(***************************************************************************)
Techs == {"solarPV", "windon", "Batteries"}

nsteps_sec == 0..6

\* price reduction per step, EUR rounded to the unit (variation_14_updated)
P_sec(n, t) ==
  IF t \in {"solarPV", "windon", "windoff"}
  THEN CASE n = 0 -> 0
         [] n = 1 -> 46842
         [] n = 2 -> 88384
         [] n = 3 -> 125225
         [] n = 4 -> 157898
         [] n = 5 -> 186875
         [] n = 6 -> 212573
  ELSE 0

\* cumulative secondary capacity needed for a step
capacityperstep_sec(n) ==
  CASE n = 0 -> 0
    [] n = 1 -> 100
    [] n = 2 -> 1000
    [] n = 3 -> 10000
    [] n = 4 -> 100000
    [] n = 5 -> 1000000
    [] n = 6 -> 10000000

VARIABLES
  args,                 \* the parsed command line
  input_files,          \* the input workbook
  windows,              \* the windows of the horizon, 0-based
  i,                    \* index of the window being solved
  initial_conditions,   \* carry-over record of the window, or None
  tech,                 \* the technology followed (location is EU27)
  technologies,         \* data_urbsextensionv1["technologies"]["EU27"][tech]
  y0, y_end,            \* base_params of the sliced data
  capacity_ext, capacity_ext_new, capacity_ext_imported,
  capacity_ext_stockout, capacity_ext_euprimary, capacity_ext_eusecondary,
  capacity_ext_stock, capacity_ext_stock_imported,
  pricereduction_sec, BD_sec,
  capacity_dec, capacity_scrap_dec, capacity_scrap_rec, capacity_scrap_total,
  capacity_secondary_cumulative,
  cost_scrap, costs_ext_import, costs_ext_storage, costs_EU_primary,
  costs_EU_secondary,
  costs_new,            \* by cost type, once every year is assigned
  termination_condition, \* solver termination of each window run so far
  all_carryovers,       \* by year: the window index and the value recorded
  result_file,          \* the stitched workbook by sheet, None until written
  error,                \* the exception that ended the run, or "none"
  path_workbook,        \* plot_auto: the file at path: whether it opens, its sheets
  expected_sheets,      \* plot_auto: argument of wait_for_excel_sheets
  timeout,              \* plot_auto: argument, in units of 0.5 s
  elapsed,              \* plot_auto: time.time() - start, in units of 0.5 s
  sheetnames,           \* plot_auto: wb.sheetnames of the last workbook opened
  pc                    \* plot_auto: position in wait_for_excel_sheets

decisions == <<capacity_ext, capacity_ext_new, capacity_ext_imported,
  capacity_ext_stockout, capacity_ext_euprimary, capacity_ext_eusecondary,
  capacity_ext_stock, capacity_ext_stock_imported,
  pricereduction_sec, BD_sec,
  capacity_dec, capacity_scrap_dec, capacity_scrap_rec, capacity_scrap_total,
  capacity_secondary_cumulative,
  cost_scrap, costs_ext_import, costs_ext_storage, costs_EU_primary,
  costs_EU_secondary, costs_new>>

plot_auto == <<path_workbook, expected_sheets, timeout, elapsed, sheetnames,
  pc>>

vars == <<args, input_files, windows, i, initial_conditions, tech,
  technologies, y0, y_end, decisions, termination_condition, all_carryovers,
  result_file, error, plot_auto>>

(***************************************************************************)
(* Parameters (sets_and_params.py).  Technology attributes are read from   *)
(* the technologies sheet with a default of 0.                             *)
(***************************************************************************)
initialize_param(param_name, default_value) ==
  IF param_name \in DOMAIN technologies THEN technologies[param_name]
  ELSE default_value

l == initialize_param("l", 0)
Installed_Capacity_Q_s == initialize_param("InitialCapacity", 0)
Existing_Stock_Q_stock == initialize_param("InitialStockpile", 0)
deltaQ_EUprimary == initialize_param("dQ EU Primary", 0)
deltaQ_EUsecondary == initialize_param("dQ EU Secondary", 0)
IR_EU_primary == initialize_param("IR EU Primary", 0)
IR_EU_secondary == initialize_param("IR EU Secondary", 0)
DR_primary == initialize_param("DR Primary", 0)
DR_secondary == initialize_param("DR Secondary", 0)
f_scrap == initialize_param("scrap", 0)
f_mining == initialize_param("mining", 0)
f_recycling == initialize_param("recycling_efficiency", 0)
f_increase == initialize_param("IR_recycling", 0)
capacity_dec_start == initialize_param("Initial_decommisions", 0)
pricereduction_sec_init == initialize_param("price_reduction_init", 0)
cap_prim_prior == initialize_param("last_prim_cap", 0)
cap_sec_prior == initialize_param("last_sec_cap", 0)
scrap_total == initialize_param("capacity_scrap_total", 0)
secondary_cap_carryover == initialize_param("Initial_secondary_cap", 0)
STORAGECOST == initialize_param("Storagecost", 0)
logisticcost == initialize_param("logisticcost", 0)
\* the carried-over cumulative secondary capacity read by
\* ConstraintCarryoverSecondary
total_secondary_cap_inital == secondary_cap_carryover

\* the input workbooks: the workbook of run_model, the end-to-end example
\* (solarPV, horizon 2025 to 2026, installable ceiling 500) and a workbook
\* whose commodity sheet misses the second year of the horizon
InputFiles == {"urbs_intertemporal_2050", "example", "missing_year"}

\* installable capacity ceiling, the same in every year of the input sheet
Q_ext_new(stf) == IF input_files = "example" THEN 500 ELSE 20000000

\* domestic content ratio sheet, one row per (year, technology): 1, and for
\* windon 0 from the third year of the horizon on
DCR_solar(stf) == IF tech = "windon" /\ stf >= GLOBAL_START + 2 THEN 0 ELSE 1

\* the big M of the band constraints, 1e10, in units of 1000: 1e10 is
\* beyond the 32-bit integers
gamma_sec == 10000000

\* the cost sheets, EUR per MW and EUR per ton, the same in every year
IMPORTCOST(stf) == 3
EU_primary_costs(stf) == 10
EU_secondary_costs(stf) == 300000
f_scrap_rec(stf) == 4

\* the cost types of costs_new
cost_type_new ==
  {"Importcost", "Storagecost", "Eu Cost Primary", "Eu Cost Secondary"}

(***************************************************************************)
(* The solved years of the window and the year the solver assigns next.    *)
(***************************************************************************)
Years == DOMAIN capacity_ext
NextYear == y0 + Cardinality(Years)
Solved == NextYear > y_end
\* run_scenario of window i has not returned yet
Solving == error = "none" /\ Len(termination_condition) = i
\* run_scenario of window i has returned
Returned == error = "none" /\ Len(termination_condition) = i + 1

\* the years of the commodity sheet of the input workbook
support_timeframe ==
  IF input_files = "missing_year"
  THEN (start_year .. end_year) \ {start_year + 1}
  ELSE start_year .. end_year

\* m.stf: the support timeframes of the data sliced for the window
m_stf == {y \in support_timeframe : y0 <= y /\ y <= y_end}

\* variant: a missing index is skipped
prior_year_missing_skip == FALSE

\* a rule of a year after y0 indexes a variable at a year that is not in
\* m.stf
prior_year_missing == \E y \in m_stf : y # y0 /\ y - 1 \notin m_stf

RECURSIVE SumUpTo(_, _, _)
\* sum of f[t] over the window years t with from <= t <= upto
SumUpTo(f, from, upto) ==
  IF upto < from THEN 0 ELSE f[upto] + SumUpTo(f, from, upto - 1)

\* sum of f[n] over the steps n of nsteps_sec
SumOver(f) == SumUpTo(f, 0, 6)

(***************************************************************************)
(* Stockpile and flow balance (stockpile.py).  stf is the year being       *)
(* assigned; the other arguments are the values proposed for that year.    *)
(***************************************************************************)
\* variant: every year restarts from the installed capacity
CapacityExtGrowthRule_restart(stf, new, dec) ==
  Installed_Capacity_Q_s + new - dec

\* capacity_ext[stf]
CapacityExtGrowthRule(stf, new, dec) ==
  IF stf = y0 THEN Installed_Capacity_Q_s + new - dec
  ELSE capacity_ext[stf - 1] + new - dec

\* variant: the stock-out channel is left out of the sum
CapacityExtNewRule_nostockout(imported, stockout, euprimary, eusecondary) ==
  imported + euprimary + eusecondary

\* capacity_ext_new[stf]
CapacityExtNewRule(imported, stockout, euprimary, eusecondary) ==
  imported + stockout + euprimary + eusecondary

\* variant: every year restarts from the existing stock
CapacityExtStockRule_restart(stf, stock_imported, stockout) ==
  Existing_Stock_Q_stock + stock_imported - stockout

\* capacity_ext_stock[stf]
CapacityExtStockRule(stf, stock_imported, stockout) ==
  IF stf = y0 THEN Existing_Stock_Q_stock + stock_imported - stockout
  ELSE capacity_ext_stock[stf - 1] + stock_imported - stockout

CapacityExtNewLimitRule(stf, new) ==
  IF stf = y0 THEN new <= Q_ext_new(stf)
  ELSE new <= Q_ext_new(stf) + capacity_dec[stf - 1]

\* variant: every year after 2024 is compared with cap_prim_prior
TimedelayEUPrimaryProductionRule_prior(stf, euprimary) ==
  IF stf = GLOBAL_START THEN TRUE
  ELSE euprimary - cap_prim_prior
         <= deltaQ_EUprimary + IR_EU_primary * cap_prim_prior

TimedelayEUPrimaryProductionRule(stf, euprimary) ==
  IF stf = GLOBAL_START THEN TRUE
  ELSE IF stf = y0
       THEN euprimary - cap_prim_prior
              <= deltaQ_EUprimary + IR_EU_primary * cap_prim_prior
       ELSE euprimary - capacity_ext_euprimary[stf - 1]
              <= deltaQ_EUprimary
                   + IR_EU_primary * capacity_ext_euprimary[stf - 1]

TimedelayEUSecondaryProductionRule(stf, eusecondary) ==
  IF stf = GLOBAL_START THEN TRUE
  ELSE IF stf = y0
       THEN eusecondary - cap_sec_prior
              <= deltaQ_EUsecondary + IR_EU_secondary * cap_sec_prior
       ELSE eusecondary - capacity_ext_eusecondary[stf - 1]
              <= deltaQ_EUsecondary
                   + IR_EU_secondary * capacity_ext_eusecondary[stf - 1]

Constraint2EUSecondaryToTotalRule(stf, eusecondary, ext) ==
  IF y0 >= stf - l THEN eusecondary <= DCR_solar(stf) * ext ELSE TRUE

ConstraintEUPrimaryToTotalRule(stf, euprimary) ==
  IF stf = GLOBAL_START THEN TRUE
  ELSE IF stf = y0 THEN euprimary >= DR_primary * cap_prim_prior
       ELSE euprimary >= DR_primary * capacity_ext_euprimary[stf - 1]

ConstraintEUSecondaryToSecondaryRule(stf, eusecondary) ==
  IF stf = GLOBAL_START THEN TRUE
  ELSE IF stf = y0 THEN eusecondary >= DR_secondary * cap_sec_prior
       ELSE eusecondary >= DR_secondary * capacity_ext_eusecondary[stf - 1]

\* variant: the factor 0.5 is left out
ConstraintMaxIntoStockRule_nofactor(stock_imported, imported) ==
  stock_imported <= imported

\* stock_imported <= 0.5 * imported
ConstraintMaxIntoStockRule(stock_imported, imported) ==
  2 * stock_imported <= imported

\* capacity_secondary_cumulative[stf]
ConstraintCarryoverSecondary(stf, eusecondary) ==
  total_secondary_cap_inital
    + SumUpTo(capacity_ext_eusecondary, y0, stf - 1) + eusecondary

(***************************************************************************)
(* Price learning curve of remanufacturing (lr_remanufacturing.py).  bd    *)
(* is the vector of the seven binary flags BD_sec[stf, ., ., n].           *)
(***************************************************************************)
\* pricereduction_sec[stf]
costsavings_constraint_sec(bd) ==
  SumOver([n \in nsteps_sec |-> P_sec(n, tech) * bd[n]])

\* variant: two flags may be active
BD_limitation_constraint_sec_two(bd) ==
  SumOver(bd) <= 2

\* variant: the flags are not limited
BD_limitation_constraint_sec_off(bd) ==
  TRUE

BD_limitation_constraint_sec(bd) ==
  SumOver(bd) <= 1

\* variant: the constraint is skipped in every year
relation_pnew_to_pprior_constraint_sec_skip(stf, pricereduction) ==
  TRUE

relation_pnew_to_pprior_constraint_sec(stf, pricereduction) ==
  IF stf = y0 THEN TRUE
  ELSE pricereduction >= pricereduction_sec[stf - 1]

\* variant: the thresholds capacityperstep_sec are left out of the sum
q_perstep_constraint_sec_nothreshold(stf, eusecondary, bd) ==
  SumUpTo(capacity_ext_eusecondary, y0, stf - 1) + eusecondary >= SumOver(bd)

q_perstep_constraint_sec(stf, eusecondary, bd) ==
  LET lhs_cumulative_sum_sec ==
        SumUpTo(capacity_ext_eusecondary, y0, stf - 1) + eusecondary
      rhs_value_sec ==
        SumOver([n \in nsteps_sec |-> bd[n] * capacityperstep_sec(n)])
  IN lhs_cumulative_sum_sec >= rhs_value_sec

(***************************************************************************)
(* The band constraints of step n, on the product of the flag bd_n and the *)
(* secondary production.  An inequality with gamma_sec is divided by 1000  *)
(* with the other side rounded up, which is exact because 1e10 is a        *)
(* multiple of 1000.                                                       *)
(***************************************************************************)
\* x / 1000 rounded up
kilo(x) == (x + 999) \div 1000

upper_bound_z_constraint_sec(bd_n, eusecondary) ==
  kilo(bd_n * eusecondary) <= gamma_sec * bd_n

upper_bound_z_q1_eq_sec(bd_n, eusecondary) ==
  bd_n * eusecondary <= eusecondary

\* variant: without the slack (1 - bd_n) * gamma_sec
lower_bound_z_eq_sec_noslack(bd_n, eusecondary) ==
  bd_n * eusecondary >= eusecondary

\* bd_n * eusecondary >= eusecondary - (1 - bd_n) * gamma_sec
lower_bound_z_eq_sec(bd_n, eusecondary) ==
  kilo(eusecondary - bd_n * eusecondary) <= (1 - bd_n) * gamma_sec

non_negativity_z_eq_sec(bd_n, eusecondary) ==
  bd_n * eusecondary >= 0

(***************************************************************************)
(* Scrap and recycling (scrap.py).                                         *)
(***************************************************************************)
exogenous(t) ==
  LET first == IF t = "solarPV" THEN 7500 ELSE 0
  IN IF t = "windon" THEN 5000 ELSE 2000

\* the legacy branch adds 0.00000015 * capacity_ext_new[stf]: on the
\* integer grid when 3 * new is a multiple of 20000000
decommissioned_on_grid(stf, new) ==
  stf - l >= y0 \/ (3 * new) % 20000000 = 0

\* capacity_dec[stf]
decommissioned_capacity_rule(stf, new) ==
  IF stf - l >= y0
  THEN (IF l = 0 THEN new ELSE capacity_ext_new[stf - l])
  ELSE exogenous(tech) + (3 * new) \div 20000000

\* capacity_scrap_dec[stf]
capacity_scrap_dec_rule(dec) == f_scrap * dec

\* capacity_scrap_rec[stf] = (f_mining / f_recycling) * eusecondary
scrap_rec_on_grid(eusecondary) ==
  f_recycling # 0 /\ (f_mining * eusecondary) % f_recycling = 0

\* variant: the scrap factor takes the place of the mining factor
capacity_scrap_rec_rule_fscrap(eusecondary) ==
  (f_scrap * eusecondary) \div f_recycling

capacity_scrap_rec_rule(eusecondary) ==
  (f_mining * eusecondary) \div f_recycling

\* variant: the recycled scrap is not taken out of the total
capacity_scrap_total_rule_norec(stf, scrap_dec, scrap_rec) ==
  IF stf = y0 THEN scrap_dec
  ELSE capacity_scrap_total[stf - 1] + scrap_dec

\* capacity_scrap_total[stf], rules capacity_scrap_total_rule (start year)
\* and capacity_scrap_total_rule2 (later years)
capacity_scrap_total_rule(stf, scrap_dec, scrap_rec) ==
  IF stf = y0 THEN scrap_dec - scrap_rec
  ELSE capacity_scrap_total[stf - 1] + scrap_dec - scrap_rec

\* variant: the rule is skipped in every year
scrap_recycling_increase_rule_skip(stf, scrap_rec) ==
  TRUE

scrap_recycling_increase_rule(stf, scrap_rec) ==
  IF stf = y0 THEN TRUE
  ELSE scrap_rec - capacity_scrap_rec[stf - 1]
         <= f_increase * capacity_scrap_rec[stf - 1]

\* cost_scrap[stf]
cost_scrap_rule(stf, scrap_rec) == f_scrap_rec(stf) * scrap_rec

(***************************************************************************)
(* Costs (costs.py).  anti_dumping_measures is a non-negative variable     *)
(* that only adds to the import cost (AntiDumpingMeasuresRule is           *)
(* disabled): it is 0 in the assignments followed here.                    *)
(***************************************************************************)
anti_dumping_measures(stf) == 0

\* variant: the logistic cost of the imports into stock is left out
CalculateYearlyImportCost_nologistic(stf, imported, stock_imported) ==
  IMPORTCOST(stf) * (imported + stock_imported) + anti_dumping_measures(stf)

\* costs_ext_import[stf]
CalculateYearlyImportCost(stf, imported, stock_imported) ==
  IMPORTCOST(stf) * (imported + stock_imported)
    + stock_imported * logisticcost + anti_dumping_measures(stf)

\* costs_ext_storage[stf]
CalculateYearlyStorageCost(stock) == STORAGECOST * stock

\* costs_EU_primary[stf]
CalculateYearlyEUPrimary(stf, euprimary) == EU_primary_costs(stf) * euprimary

\* costs_EU_secondary[stf]
CalculateYearlyEUSecondary(stf, pricereduction, eusecondary, scrap_cost) ==
  (EU_secondary_costs(stf) - pricereduction) * eusecondary + scrap_cost

\* costs_new[cost_type_new], summed over the years of the window from the
\* capacities: imp .. scrap are the values of the last year stf, the
\* earlier years are assigned
DefCostsNew(type, stf, imp, stock_imp, stock, pri, sec, price_red, scrap) ==
  LET before == y0 .. stf - 1 IN
  CASE type = "Importcost" ->
         SumUpTo([y \in before |->
                    IMPORTCOST(y) * (capacity_ext_imported[y]
                                       + capacity_ext_stock_imported[y])
                      + capacity_ext_stock_imported[y] * logisticcost
                      + anti_dumping_measures(y)], y0, stf - 1)
           + IMPORTCOST(stf) * (imp + stock_imp)
           + stock_imp * logisticcost + anti_dumping_measures(stf)
    [] type = "Storagecost" ->
         SumUpTo([y \in before |-> STORAGECOST * capacity_ext_stock[y]],
                 y0, stf - 1)
           + STORAGECOST * stock
    [] type = "Eu Cost Primary" ->
         SumUpTo([y \in before |->
                    EU_primary_costs(y) * capacity_ext_euprimary[y]],
                 y0, stf - 1)
           + EU_primary_costs(stf) * pri
    [] type = "Eu Cost Secondary" ->
         SumUpTo([y \in before |->
                    (EU_secondary_costs(y) - pricereduction_sec[y])
                      * capacity_ext_eusecondary[y] + cost_scrap[y]],
                 y0, stf - 1)
           + (EU_secondary_costs(stf) - price_red) * sec
           + scrap

(***************************************************************************)
(* Scenario constraint (scenario_constraints.py): lhs >= 0.4 * new.        *)
(***************************************************************************)
\* variant: the share 0.4 of the new capacity is left out
net_zero_industrialactbenchmark_rule_a_noshare(pri, sec, stockout, stock_in, new) ==
  pri + sec + stockout - stock_in >= 0

net_zero_industrialactbenchmark_rule_a(pri, sec, stockout, stock_in, new) ==
  5 * (pri + sec + stockout - stock_in) >= 2 * new

(***************************************************************************)
(* Inputs enumerated by the model.                                         *)
(***************************************************************************)
ImportedAmounts == {0, 1000}
StockImportedAmounts == {0, 500, 1000}
StockoutAmounts == {0, 500}
PrimaryAmounts == {0, 19999000}
SecondaryAmounts == {0, 1000}
Binary == {0, 1}

\* the technologies sheet of the input workbook, one row per technology:
\* primary production neither grows nor shrinks (dQ 0, IR 0, DR 1),
\* secondary production never shrinks (DR 1), one MW scraps to one ton
\* and needs two tons when recycled (three tons for Batteries)
TechnologySheet ==
  IF input_files = "example"
  THEN ("InitialCapacity" :> 1000) @@ ("InitialStockpile" :> 0)
       @@ ("l" :> 2)
       @@ ("scrap" :> 1) @@ ("recycling_efficiency" :> 1) @@ ("mining" :> 2)
  ELSE
  ("InitialCapacity" :> 10000) @@ ("InitialStockpile" :> 0)
  @@ ("l" :> 1)
  @@ ("dQ EU Primary" :> 0) @@ ("dQ EU Secondary" :> 1000)
  @@ ("IR EU Primary" :> 0) @@ ("IR EU Secondary" :> 1)
  @@ ("DR Primary" :> 1) @@ ("DR Secondary" :> 1)
  @@ ("scrap" :> 1) @@ ("recycling_efficiency" :> 1)
  @@ ("mining" :> IF tech = "Batteries" THEN 3 ELSE 2)
  @@ ("IR_recycling" :> 1) @@ ("Initial_decommisions" :> 0)
  @@ ("price_reduction_init" :> 46842)
  @@ ("capacity_scrap_total" :> 500)
  @@ ("Initial_secondary_cap" :> 1000)
  @@ ("last_prim_cap" :> 19999000) @@ ("last_sec_cap" :> 0)
  @@ ("Storagecost" :> 2) @@ ("logisticcost" :> 1)

(***************************************************************************)
(* run_rolling_horizon: the windows (current_start, end_year).             *)
(***************************************************************************)
RECURSIVE BuildWindows(_)
BuildWindows(current_start) ==
  IF current_start < end_year
  THEN <<<<current_start, end_year>>>> \o BuildWindows(current_start + step)
  ELSE <<>>

Unassigned ==
  /\ capacity_ext = <<>> /\ capacity_ext_new = <<>>
  /\ capacity_ext_imported = <<>> /\ capacity_ext_stockout = <<>>
  /\ capacity_ext_euprimary = <<>> /\ capacity_ext_eusecondary = <<>>
  /\ capacity_ext_stock = <<>> /\ capacity_ext_stock_imported = <<>>
  /\ pricereduction_sec = <<>> /\ BD_sec = <<>>
  /\ capacity_dec = <<>> /\ capacity_scrap_dec = <<>>
  /\ capacity_scrap_rec = <<>> /\ capacity_scrap_total = <<>>
  /\ capacity_secondary_cumulative = <<>>
  /\ cost_scrap = <<>> /\ costs_ext_import = <<>>
  /\ costs_ext_storage = <<>> /\ costs_EU_primary = <<>>
  /\ costs_EU_secondary = <<>> /\ costs_new = <<>>

\* the lengths --window is given with
WindowLengths == {1, 5}

\* the run of run_model in rolling mode on one of the workbooks files, for
\* one of the technologies techs, with --window one of lengths
run_model(files, techs, lengths) ==
  /\ args \in [mode : {"rolling"}, window : lengths]
  /\ input_files \in files
  /\ windows = IF input_files = "example" THEN <<<<2025, 2026>>>>
               ELSE BuildWindows(start_year)
  /\ i = 0
  /\ initial_conditions = None
  /\ tech \in IF input_files = "example" THEN {"solarPV"} ELSE techs
  /\ technologies = TechnologySheet
  /\ y0 = windows[1][1]
  /\ y_end = windows[1][2]
  /\ Unassigned
  /\ termination_condition = <<>>
  /\ all_carryovers = <<>>
  /\ result_file = None
  /\ error = "none"

\* plot_auto.py is a script of its own: wait_for_excel_sheets is not called
\* in a run of run_model
not_called ==
  /\ path_workbook = [opens |-> FALSE, sheetnames |-> {}]
  /\ expected_sheets = {}
  /\ timeout = 0
  /\ elapsed = 0
  /\ sheetnames = {}
  /\ pc = "not_called"

\* --window is left at its default
Init == run_model(InputFiles, Techs, {5}) /\ not_called

(***************************************************************************)
(* The solver assigns the next year of the window: any values that         *)
(* satisfy every rule with index stf (apply_stockpiling_constraints,       *)
(* apply_combined_lr_constraints, apply_scrap_constraints,                 *)
(* apply_scenario_constraints) within the variables' domains               *)
(* (apply_variables: NonNegativeReals, Binary).                            *)
(***************************************************************************)
NonNegativeReals(x) == x >= 0

AssignYear ==
  /\ Solving
  /\ ~prior_year_missing
  /\ ~Solved
  /\ LET stf == NextYear IN
     \E imported \in ImportedAmounts, stock_imported \in StockImportedAmounts :
     /\ ConstraintMaxIntoStockRule(stock_imported, imported)
     /\ \E stockout \in StockoutAmounts :
        LET stock == CapacityExtStockRule(stf, stock_imported, stockout) IN
        /\ NonNegativeReals(stock)
        /\ \E euprimary \in PrimaryAmounts :
           /\ TimedelayEUPrimaryProductionRule(stf, euprimary)
           /\ ConstraintEUPrimaryToTotalRule(stf, euprimary)
           /\ \E eusecondary \in SecondaryAmounts :
              LET new == CapacityExtNewRule(imported, stockout, euprimary,
                                            eusecondary)
                  dec == decommissioned_capacity_rule(stf, new)
                  ext == CapacityExtGrowthRule(stf, new, dec)
                  scrap_dec == capacity_scrap_dec_rule(dec)
                  scrap_rec == capacity_scrap_rec_rule(eusecondary)
                  scrap_tot == capacity_scrap_total_rule(stf, scrap_dec,
                                                         scrap_rec)
                  cumulative == ConstraintCarryoverSecondary(stf, eusecondary)
              IN
              /\ TimedelayEUSecondaryProductionRule(stf, eusecondary)
              /\ ConstraintEUSecondaryToSecondaryRule(stf, eusecondary)
              /\ CapacityExtNewLimitRule(stf, new)
              /\ net_zero_industrialactbenchmark_rule_a(
                   euprimary, eusecondary, stockout, stock_imported, new)
              /\ decommissioned_on_grid(stf, new)
              /\ scrap_rec_on_grid(eusecondary)
              /\ NonNegativeReals(dec) /\ NonNegativeReals(ext)
              /\ NonNegativeReals(scrap_dec) /\ NonNegativeReals(scrap_rec)
              /\ NonNegativeReals(scrap_tot) /\ NonNegativeReals(cumulative)
              /\ Constraint2EUSecondaryToTotalRule(stf, eusecondary, ext)
              /\ scrap_recycling_increase_rule(stf, scrap_rec)
              /\ \E bd \in [nsteps_sec -> Binary] :
                 LET pricereduction == costsavings_constraint_sec(bd)
                     scrap_cost == cost_scrap_rule(stf, scrap_rec)
                     import_cost ==
                       CalculateYearlyImportCost(stf, imported,
                                                 stock_imported)
                     storage_cost == CalculateYearlyStorageCost(stock)
                     primary_cost == CalculateYearlyEUPrimary(stf, euprimary)
                     secondary_cost ==
                       CalculateYearlyEUSecondary(stf, pricereduction,
                                                  eusecondary, scrap_cost)
                 IN
                 /\ BD_limitation_constraint_sec(bd)
                 /\ q_perstep_constraint_sec(stf, eusecondary, bd)
                 /\ relation_pnew_to_pprior_constraint_sec(stf, pricereduction)
                 /\ \A n \in nsteps_sec :
                      /\ upper_bound_z_constraint_sec(bd[n], eusecondary)
                      /\ upper_bound_z_q1_eq_sec(bd[n], eusecondary)
                      /\ lower_bound_z_eq_sec(bd[n], eusecondary)
                      /\ non_negativity_z_eq_sec(bd[n], eusecondary)
                 /\ NonNegativeReals(pricereduction)
                 /\ capacity_ext' = capacity_ext @@ (stf :> ext)
                 /\ capacity_ext_new' = capacity_ext_new @@ (stf :> new)
                 /\ capacity_ext_imported' =
                      capacity_ext_imported @@ (stf :> imported)
                 /\ capacity_ext_stockout' =
                      capacity_ext_stockout @@ (stf :> stockout)
                 /\ capacity_ext_euprimary' =
                      capacity_ext_euprimary @@ (stf :> euprimary)
                 /\ capacity_ext_eusecondary' =
                      capacity_ext_eusecondary @@ (stf :> eusecondary)
                 /\ capacity_ext_stock' = capacity_ext_stock @@ (stf :> stock)
                 /\ capacity_ext_stock_imported' =
                      capacity_ext_stock_imported @@ (stf :> stock_imported)
                 /\ pricereduction_sec' =
                      pricereduction_sec @@ (stf :> pricereduction)
                 /\ BD_sec' = BD_sec @@ (stf :> bd)
                 /\ capacity_dec' = capacity_dec @@ (stf :> dec)
                 /\ capacity_scrap_dec' =
                      capacity_scrap_dec @@ (stf :> scrap_dec)
                 /\ capacity_scrap_rec' =
                      capacity_scrap_rec @@ (stf :> scrap_rec)
                 /\ capacity_scrap_total' =
                      capacity_scrap_total @@ (stf :> scrap_tot)
                 /\ capacity_secondary_cumulative' =
                      capacity_secondary_cumulative @@ (stf :> cumulative)
                 /\ NonNegativeReals(scrap_cost)
                 /\ NonNegativeReals(import_cost)
                 /\ NonNegativeReals(storage_cost)
                 /\ NonNegativeReals(primary_cost)
                 /\ NonNegativeReals(secondary_cost)
                 /\ cost_scrap' = cost_scrap @@ (stf :> scrap_cost)
                 /\ costs_ext_import' =
                      costs_ext_import @@ (stf :> import_cost)
                 /\ costs_ext_storage' =
                      costs_ext_storage @@ (stf :> storage_cost)
                 /\ costs_EU_primary' =
                      costs_EU_primary @@ (stf :> primary_cost)
                 /\ costs_EU_secondary' =
                      costs_EU_secondary @@ (stf :> secondary_cost)
                 /\ costs_new' =
                      IF stf = y_end
                      THEN [c \in cost_type_new |->
                              DefCostsNew(c, stf, imported, stock_imported,
                                          stock, euprimary, eusecondary,
                                          pricereduction, scrap_cost)]
                      ELSE costs_new
  /\ termination_condition' =
       IF NextYear = y_end THEN Append(termination_condition, "optimal")
       ELSE termination_condition
  /\ UNCHANGED <<plot_auto, args, input_files, windows, i, initial_conditions, tech,
                 technologies, y0, y_end, all_carryovers, result_file, error>>

(***************************************************************************)
(* The solver finds no solution for the window: the model of the window    *)
(* (all locations and technologies and the energy system) is infeasible.   *)
(* run_scenario prints the termination condition and returns; no variable  *)
(* has a value.                                                            *)
(***************************************************************************)
NonOptimal == {"infeasibleOrUnbounded"}

SolveFails ==
  /\ Solving
  /\ ~prior_year_missing
  /\ Years = {}
  /\ \E condition \in NonOptimal :
       termination_condition' = Append(termination_condition, condition)
  /\ UNCHANGED <<plot_auto, args, input_files, windows, i, initial_conditions, tech,
                 technologies, y0, y_end, decisions, all_carryovers,
                 result_file, error>>

(***************************************************************************)
(* create_model builds the constraints of the window: the index of a year  *)
(* that is not in m.stf raises KeyError, which nothing catches.            *)
(***************************************************************************)
create_model_KeyError ==
  /\ Solving
  /\ prior_year_missing
  /\ error' = "KeyError"
  /\ UNCHANGED <<plot_auto, args, input_files, windows, i, initial_conditions, tech,
                 technologies, y0, y_end, decisions, termination_condition,
                 all_carryovers, result_file>>

(***************************************************************************)
(* The next iteration of run_rolling_horizon: the carry-over of the year   *)
(* before the window's start is read from the previous window's results    *)
(* and the extension data is sliced for the window.                        *)
(***************************************************************************)
\* carryovers[year] for the (location, tech) pair followed
read_carry_over_from_excel(year) ==
  ("Installed_Capacity_Q_s" :> capacity_ext[year])
  @@ ("Existing_Stock_Q_stock" :> capacity_ext_stock[year])
  @@ ("capacity_dec_start" :> capacity_dec[year])
  @@ ("Total Cap Sec" :> capacity_secondary_cumulative[year])
  @@ ("Total_Scrap" :> capacity_scrap_total[year])
  @@ ("Pricereduction" :> pricereduction_sec[year])

tech_to_update == {"solarPV", "windoff", "windon"}

\* the technologies sheet after sliced_dataurbsextensionv1
sliced_dataurbsextensionv1(conditions) ==
  IF conditions # None /\ tech \in tech_to_update
  THEN [technologies EXCEPT
          !["InitialCapacity"] = conditions["Installed_Capacity_Q_s"],
          !["InitialStockpile"] = conditions["Existing_Stock_Q_stock"],
          !["Initial_decommisions"] = conditions["capacity_dec_start"]]
  ELSE technologies

\* the sheets report writes (report.py) and the sheets
\* read_carry_over_from_excel reads
report_sheets ==
  {"us_BDpri_values", "us_BDsec_values", "extension_only_caps",
   "extension_cost", "extension_total_caps", "extension_balance", "us_co2",
   "extension_only_totalcapacity", "Costs", "Process caps",
   "Transmission caps", "Storage caps", "Commodity sums"}

carry_over_sheets ==
  {"extension_total_caps", "extension_only_caps", "decom",
   "secondary_cap_sum", "scrap", "extension_balance", "e_pro_in",
   "extension_cost", "us_co2", "pricereduction_sec"}

\* the result workbook of a window when the orchestrator opens it: with the
\* sheets of report only, or with the carry-over sheets as well
ResultFiles == {report_sheets, report_sheets \cup carry_over_sheets}

\* variant: the carry-over is read at the window's own first year
carry_year_of_start(window_start) == window_start

carry_year(window_start) == window_start - 1

\* the variable of the carry-over whose stitched values are followed
var_name == "Pricereduction"

\* variant: a year that is recorded keeps the value of the earlier window
carryovers_for_window_keep(all) ==
  [year \in DOMAIN all \cup Years |->
     IF year \in DOMAIN all THEN all[year]
     ELSE <<i, read_carry_over_from_excel(year)[var_name]>>]

\* all_carryovers[var_name] after the results of window i are added to all:
\* every year of the results is recorded with the window index, over the
\* value of an earlier window
carryovers_for_window(all) ==
  [year \in DOMAIN all \cup Years |->
     IF year \in Years THEN <<i, read_carry_over_from_excel(year)[var_name]>>
     ELSE all[year]]

\* the orchestrator opens the result workbook of the window that has
\* returned: pandas raises ValueError for a sheet that is not there, else
\* the results are added to all_carryovers and the next window is sliced
\* from the carry-over
NextWindow ==
  /\ Returned
  /\ result_file = None
  /\ \E sheets \in ResultFiles :
       IF carry_over_sheets \subseteq sheets
       THEN
         /\ i + 1 < Len(windows)
         /\ LET window_start == windows[i + 2][1]
                window_end == windows[i + 2][2]
                conditions ==
                  IF carry_year(window_start) \in Years
                  THEN read_carry_over_from_excel(carry_year(window_start))
                  ELSE None
            IN /\ initial_conditions' = conditions
               /\ technologies' = sliced_dataurbsextensionv1(conditions)
               /\ y0' = window_start
               /\ y_end' = window_end
         /\ i' = i + 1
         /\ all_carryovers' = carryovers_for_window(all_carryovers)
         /\ capacity_ext' = <<>> /\ capacity_ext_new' = <<>>
         /\ capacity_ext_imported' = <<>> /\ capacity_ext_stockout' = <<>>
         /\ capacity_ext_euprimary' = <<>> /\ capacity_ext_eusecondary' = <<>>
         /\ capacity_ext_stock' = <<>> /\ capacity_ext_stock_imported' = <<>>
         /\ pricereduction_sec' = <<>> /\ BD_sec' = <<>>
         /\ capacity_dec' = <<>> /\ capacity_scrap_dec' = <<>>
         /\ capacity_scrap_rec' = <<>> /\ capacity_scrap_total' = <<>>
         /\ capacity_secondary_cumulative' = <<>>
         /\ cost_scrap' = <<>> /\ costs_ext_import' = <<>>
         /\ costs_ext_storage' = <<>> /\ costs_EU_primary' = <<>>
         /\ costs_EU_secondary' = <<>> /\ costs_new' = <<>>
         /\ UNCHANGED <<plot_auto, args, input_files, windows, tech,
                        termination_condition, result_file, error>>
       ELSE
         /\ error' = "ValueError"
         /\ UNCHANGED <<plot_auto, args, input_files, windows, i, initial_conditions,
                        tech, technologies, y0, y_end, decisions,
                        termination_condition, all_carryovers, result_file>>

\* after the last window: its results are added to all_carryovers and the
\* stitched workbook is written
write_carryovers_to_excel ==
  /\ Returned
  /\ result_file = None
  /\ i + 1 = Len(windows)
  /\ \E sheets \in ResultFiles : carry_over_sheets \subseteq sheets
  /\ all_carryovers' = carryovers_for_window(all_carryovers)
  /\ result_file' = (var_name :> all_carryovers')
  /\ UNCHANGED <<plot_auto, args, input_files, windows, i, initial_conditions, tech,
                 technologies, y0, y_end, decisions, termination_condition,
                 error>>

Next ==
  \/ AssignYear
  \/ SolveFails
  \/ create_model_KeyError
  \/ NextWindow
  \/ write_carryovers_to_excel

Spec == Init /\ [][Next]_vars

\* the runs with --window given, followed for one technology
InitWindowGiven ==
  /\ run_model({"urbs_intertemporal_2050", "missing_year"}, {"Batteries"},
               WindowLengths)
  /\ not_called

SpecWindowGiven == InitWindowGiven /\ [][Next]_vars

(***************************************************************************)
(* plot_auto.py: wait_for_excel_sheets(path, expected_sheets, timeout)     *)
(* polls the workbook at path every 0.5 s.  Time is counted in units of    *)
(* 0.5 s; the workbook is written by another process, so between two steps *)
(* of the function it can become any workbook.                             *)
(***************************************************************************)
MaxTimeout == 3

SheetNames == {"Installed_Capacity_Q_s", "Total_Cost"}

Workbooks == [opens : BOOLEAN, sheetnames : SUBSET SheetNames]

\* main rule of the function's call: start = time.time()
wait_for_excel_sheets ==
  /\ path_workbook \in Workbooks
  /\ expected_sheets \in SUBSET SheetNames
  /\ timeout \in 0..MaxTimeout
  /\ elapsed = 0
  /\ sheetnames = {}
  /\ pc = "while"

\* while time.time() - start < timeout: ... ; raise TimeoutError
while_timeout ==
  /\ pc = "while"
  /\ pc' = IF elapsed < timeout THEN "try" ELSE "TimeoutError"
  /\ UNCHANGED <<path_workbook, expected_sheets, timeout, elapsed, sheetnames>>

\* variant: the function returns once the workbook opens
all_sheet_in_sheets_opened(sheets) == TRUE

\* all(sheet in sheets for sheet in expected_sheets)
all_sheet_in_sheets(sheets) == \A sheet \in expected_sheets : sheet \in sheets

\* try: wb = openpyxl.load_workbook(path); sheets = wb.sheetnames; return
\* True if every expected sheet is among them; except Exception: pass.
\* Opening the workbook takes no time or one unit of it.
load_workbook ==
  /\ pc = "try"
  /\ \E took \in {0, 1} : elapsed' = elapsed + took
  /\ IF path_workbook.opens
     THEN /\ sheetnames' = path_workbook.sheetnames
          /\ pc' = IF all_sheet_in_sheets(sheetnames') THEN "True" ELSE "sleep"
     ELSE /\ sheetnames' = sheetnames
          /\ pc' = "sleep"
  /\ UNCHANGED <<path_workbook, expected_sheets, timeout>>

\* time.sleep(0.5) suspends the function for at least 0.5 s
time_sleep ==
  /\ pc = "sleep"
  /\ \E slept \in {1, 2} : elapsed' = elapsed + slept
  /\ pc' = "while"
  /\ UNCHANGED <<path_workbook, expected_sheets, timeout, sheetnames>>

\* the process that writes the workbook, while the function is waiting
workbook_written ==
  /\ pc \in {"while", "try", "sleep"}
  /\ path_workbook' \in Workbooks \ {path_workbook}
  /\ UNCHANGED <<expected_sheets, timeout, elapsed, sheetnames, pc>>

\* the steps of the function itself
wait_step == while_timeout \/ load_workbook \/ time_sleep

rolling_unchanged ==
  UNCHANGED <<args, input_files, windows, i, initial_conditions, tech,
              technologies, y0, y_end, decisions, termination_condition,
              all_carryovers, result_file, error>>

NextWait ==
  \/ while_timeout /\ rolling_unchanged
  \/ load_workbook /\ rolling_unchanged
  \/ time_sleep /\ rolling_unchanged
  \/ workbook_written /\ rolling_unchanged

\* a call of wait_for_excel_sheets beside a run that has not started
InitWait ==
  /\ run_model({"example"}, {"solarPV"}, {5})
  /\ wait_for_excel_sheets

\* the interpreter keeps executing the function: its next step is taken
SpecWait ==
  /\ InitWait
  /\ [][NextWait]_vars
  /\ WF_vars(wait_step /\ rolling_unchanged)

(***************************************************************************)
(* Properties of the feasible assignments.  A year y in Years is a year    *)
(* of the current window whose variables are assigned.                     *)
(***************************************************************************)

\* C1: in every feasible assignment the installed capacity of a year is the
\* predecessor (Installed_Capacity_Q_s at the window start y0, the previous
\* year's capacity otherwise) plus the year's new capacity minus the year's
\* decommissioned capacity.
C1_CapacityContinuity ==
  \A y \in Years :
    capacity_ext[y] =
      (IF y = y0 THEN Installed_Capacity_Q_s ELSE capacity_ext[y - 1])
        + capacity_ext_new[y] - capacity_dec[y]

\* a later year of a window builds on a capacity that has moved away from
\* the installed capacity, with new and decommissioned capacity both present
C1_Witness ==
  \E y \in Years :
    /\ y > y0
    /\ capacity_ext[y - 1] # Installed_Capacity_Q_s
    /\ capacity_ext_new[y] > 0
    /\ capacity_dec[y] > 0

\* C2: the new capacity of a year is the sum of the four channels imported,
\* stockout, euprimary and eusecondary.
C2_ChannelDecomposition ==
  \A y \in Years :
    capacity_ext_new[y] =
      capacity_ext_imported[y] + capacity_ext_stockout[y]
        + capacity_ext_euprimary[y] + capacity_ext_eusecondary[y]

\* a year in which all four channels deliver
C2_Witness ==
  \E y \in Years :
    /\ capacity_ext_imported[y] > 0
    /\ capacity_ext_stockout[y] > 0
    /\ capacity_ext_euprimary[y] > 0
    /\ capacity_ext_eusecondary[y] > 0

\* C3: the stockpile of a year is the predecessor (Existing_Stock_Q_stock at
\* y0, the previous year's stockpile otherwise) plus the imports into stock
\* minus the stock-out.
C3_StockpileContinuity ==
  \A y \in Years :
    capacity_ext_stock[y] =
      (IF y = y0 THEN Existing_Stock_Q_stock ELSE capacity_ext_stock[y - 1])
        + capacity_ext_stock_imported[y] - capacity_ext_stockout[y]

\* a window after the first starts from a carried, non-empty stockpile,
\* adds to it at y0 and draws it down in a later year
C3_Witness ==
  /\ i > 0 /\ y0 \in Years
  /\ Existing_Stock_Q_stock > 0
  /\ capacity_ext_stock[y0] > Existing_Stock_Q_stock
  /\ \E y \in Years : y > y0 /\ capacity_ext_stockout[y] > 0

\* C4: the stockpile is never negative and the imports into stock of a year
\* never exceed half of the year's imports.
C4_StockBounds ==
  \A y \in Years :
    /\ capacity_ext_stock[y] >= 0
    /\ 2 * capacity_ext_stock_imported[y] <= capacity_ext_imported[y]

\* the cap is met with equality and the stockpile is emptied afterwards
C4_Witness ==
  \E y \in Years :
    /\ y > y0
    /\ capacity_ext_imported[y - 1] > 0
    /\ 2 * capacity_ext_stock_imported[y - 1] = capacity_ext_imported[y - 1]
    /\ capacity_ext_stockout[y] > 0
    /\ capacity_ext_stock[y] = 0

\* C5: within one window the cost reduction never decreases from one year
\* to a later year.
C5_MonotoneWithinWindow ==
  \A y1 \in Years : \A y2 \in Years :
    y1 < y2 => pricereduction_sec[y2] >= pricereduction_sec[y1]

\* a window of three assigned years in which the cost reduction rises
C5_Witness ==
  /\ Cardinality(Years) >= 3
  /\ \E y \in Years :
       y > y0 /\ pricereduction_sec[y] > pricereduction_sec[y - 1]

\* C6: the monotonicity constraint is skipped only for the year 2024; in a
\* window whose first year y0 is later than 2024 the cost reduction of y0 is
\* at least pricereduction_sec_init and at least the cost reduction carried
\* over from the year before y0.
C6_PredecessorAtWindowStart ==
  (y0 > GLOBAL_START /\ y0 \in Years) =>
    /\ pricereduction_sec[y0] >= pricereduction_sec_init
    /\ initial_conditions # None =>
         pricereduction_sec[y0] >= initial_conditions["Pricereduction"]

\* C7: in every year at most one of the seven step flags is active.
C7_StepExclusivity ==
  \A y \in Years : SumOver(BD_sec[y]) <= 1

\* a year in which a step above step 0 is the active one
C7_Witness ==
  \E y \in Years : \E n \in nsteps_sec :
    n >= 1 /\ BD_sec[y][n] = 1 /\ SumOver(BD_sec[y]) = 1

\* C8 as stated: in every year exactly one of the seven step flags is
\* active.
C8_ExactlyOneActiveStep ==
  \A y \in Years : Cardinality({n \in nsteps_sec : BD_sec[y][n] = 1}) = 1

\* C8 amended: in every year either exactly one step flag is active and the
\* cost reduction is that step's P_sec, or no flag is active and the cost
\* reduction is 0, the cost reduction of step 0.
C8_OneOrNoActiveStep ==
  \A y \in Years :
    LET active == {n \in nsteps_sec : BD_sec[y][n] = 1} IN
    \/ /\ active = {}
       /\ pricereduction_sec[y] = 0
    \/ \E n \in nsteps_sec :
         active = {n} /\ pricereduction_sec[y] = P_sec(n, tech)

\* a window with a year without any active flag and a year with one
C8_Witness ==
  /\ \E y \in Years : \A n \in nsteps_sec : BD_sec[y][n] = 0
  /\ \E y \in Years : \E n \in nsteps_sec :
       BD_sec[y][n] = 1 /\ pricereduction_sec[y] > 0

\* C9: when step n is active in year y (so the cost reduction of y is
\* P_sec[n]), the carried-over secondary capacity plus the secondary
\* capacity built in the window's years up to y is at least
\* capacityperstep_sec[n].
C9_ThresholdGate ==
  \A y \in Years : \A n \in nsteps_sec :
    BD_sec[y][n] = 1 =>
      /\ pricereduction_sec[y] = P_sec(n, tech)
      /\ total_secondary_cap_inital
           + SumUpTo(capacity_ext_eusecondary, y0, y) >= capacityperstep_sec(n)
      /\ capacity_secondary_cumulative[y] >= capacityperstep_sec(n)

\* step 2 becomes active in a later year of a window, once the secondary
\* capacity built in the window has reached its threshold
C9_Witness ==
  \E y \in Years :
    /\ y > y0
    /\ BD_sec[y][2] = 1
    /\ BD_sec[y - 1][2] = 0
    /\ SumUpTo(capacity_ext_eusecondary, y0, y) >= capacityperstep_sec(2)

\* C10: the scrap total of a year is the predecessor plus the scrap of the
\* year's decommissioning minus the scrap recycled; the predecessor is the
\* previous year's total, and at y0 the seed: the parameter scrap_total,
\* and in a window after the first the total carried over.
C10_ScrapRecursionSeeded ==
  \A y \in Years :
    /\ capacity_scrap_total[y] =
         (IF y = y0 THEN scrap_total ELSE capacity_scrap_total[y - 1])
           + capacity_scrap_dec[y] - capacity_scrap_rec[y]
    /\ (y = y0 /\ initial_conditions # None) =>
         capacity_scrap_total[y] =
           initial_conditions["Total_Scrap"]
             + capacity_scrap_dec[y] - capacity_scrap_rec[y]

\* C11 as stated: the scrap of decommissioning is f_scrap times the
\* decommissioned capacity and the recycled scrap is f_scrap / f_recycling
\* times the secondary production.
C11_ScrapFlowsByScrapFactor ==
  \A y \in Years :
    /\ capacity_scrap_dec[y] = f_scrap * capacity_dec[y]
    /\ f_recycling * capacity_scrap_rec[y]
         = f_scrap * capacity_ext_eusecondary[y]

\* C11 amended: the scrap of decommissioning is f_scrap times the
\* decommissioned capacity and the recycled scrap is f_mining / f_recycling
\* times the secondary production.
C11_ScrapFlowsByMiningFactor ==
  \A y \in Years :
    /\ capacity_scrap_dec[y] = f_scrap * capacity_dec[y]
    /\ f_recycling * capacity_scrap_rec[y]
         = f_mining * capacity_ext_eusecondary[y]

\* a year with secondary production, recycled scrap and decommissioning
C11_Witness ==
  \E y \in Years :
    /\ capacity_ext_eusecondary[y] > 0
    /\ capacity_scrap_rec[y] > capacity_ext_eusecondary[y]
    /\ capacity_scrap_dec[y] > 0

\* C12: in a year y with y - l >= y0 the decommissioned capacity is the new
\* capacity of year y - l; in every other year it is the exogenous value of
\* the technology, whatever the decision variables are.
C12_DecommissioningCohortOrFloor ==
  \A y \in Years :
    capacity_dec[y] =
      (IF y - l >= y0 THEN capacity_ext_new[y - l] ELSE exogenous(tech))

C20_ThreeStateRamp ==
  \A y \in Years :
    \/ y = GLOBAL_START
    \/ /\ y = y0
       /\ capacity_ext_euprimary[y] - cap_prim_prior
            <= deltaQ_EUprimary + IR_EU_primary * cap_prim_prior
       /\ capacity_ext_eusecondary[y] - cap_sec_prior
            <= deltaQ_EUsecondary + IR_EU_secondary * cap_sec_prior
    \/ /\ y > y0
       /\ capacity_ext_euprimary[y] - capacity_ext_euprimary[y - 1]
            <= deltaQ_EUprimary
                 + IR_EU_primary * capacity_ext_euprimary[y - 1]
       /\ capacity_ext_eusecondary[y] - capacity_ext_eusecondary[y - 1]
            <= deltaQ_EUsecondary
                 + IR_EU_secondary * capacity_ext_eusecondary[y - 1]

\* a window that starts after 2024 and raises the secondary production over
\* the carried prior at y0
C20_Witness ==
  /\ y0 > GLOBAL_START /\ y0 + 1 \in Years
  /\ capacity_ext_eusecondary[y0] > cap_sec_prior
  /\ capacity_ext_euprimary[y0] = cap_prim_prior
  /\ capacity_ext_eusecondary[y0 + 1] >= capacity_ext_eusecondary[y0]

\* C14: a window after the first is seeded with the previous window's values
\* at the carry-over year: the installed capacity, the stockpile, the scrap
\* total and the price reduction it starts from are capacity_ext,
\* capacity_ext_stock, capacity_scrap_total and pricereduction_sec of that
\* year, for every technology.
C14_RoundTripCarryOver ==
  (i > 0 /\ initial_conditions # None) =>
    /\ Installed_Capacity_Q_s = initial_conditions["Installed_Capacity_Q_s"]
    /\ Existing_Stock_Q_stock = initial_conditions["Existing_Stock_Q_stock"]
    /\ scrap_total = initial_conditions["Total_Scrap"]
    /\ pricereduction_sec_init = initial_conditions["Pricereduction"]

C16_MissingCarryOverIsFatal ==
  ~(i > 0 /\ initial_conditions = None /\ error = "none")

\* C17: the hand-off between windows waits for the expected sheets of the
\* result workbook and ends the run only by the timeout error of that wait;
\* it does not open a workbook whose sheets are missing.
C17_HandOffFailsOnlyByTimeout ==
  error \in {"none", "TimeoutError"}

\* C18: when the solve of a window does not end with the termination
\* condition optimal, no later window is solved.
C18_FailedWindowIsTerminal ==
  \A k \in 1..Len(termination_condition) :
    termination_condition[k] # "optimal" => k = Len(termination_condition)

\* C19: for each of the four cost types the aggregate costs_new of a solved
\* window is the sum over the window's years of the matching yearly cost
\* variable.
C19_CostConsistency ==
  DOMAIN costs_new # {} =>
    /\ costs_new["Importcost"] = SumUpTo(costs_ext_import, y0, y_end)
    /\ costs_new["Storagecost"] = SumUpTo(costs_ext_storage, y0, y_end)
    /\ costs_new["Eu Cost Primary"] = SumUpTo(costs_EU_primary, y0, y_end)
    /\ costs_new["Eu Cost Secondary"]
         = SumUpTo(costs_EU_secondary, y0, y_end)

\* a solved window with costs of all four types, the import cost with
\* logistic cost in more than one year
C19_Witness ==
  /\ DOMAIN costs_new # {}
  /\ \A c \in cost_type_new : costs_new[c] > 0
  /\ \E y \in Years :
       /\ y > y0
       /\ capacity_ext_stock_imported[y] > 0
       /\ capacity_ext_stock_imported[y - 1] > 0
  /\ \E y \in Years : cost_scrap[y] > 0

\* C21: in every year of the window the secondary production is at most
\* DCR_solar of the year times the installed capacity of the year.
C21_DomesticContentCeiling ==
  \A y \in Years :
    capacity_ext_eusecondary[y] <= DCR_solar(y) * capacity_ext[y]

\* C26: in a year of the legacy branch (y - l < y0) the constant term of the
\* decommissioned capacity is 7500 for solarPV, 5000 for windon and 2000 for
\* every other technology.
C26_FloorPerTechnology ==
  \A y \in Years :
    y - l < y0 =>
      capacity_dec[y] - (3 * capacity_ext_new[y]) \div 20000000
        = (CASE tech = "solarPV" -> 7500
             [] tech = "windon" -> 5000
             [] OTHER -> 2000)

\* the amounts of secondary production the band constraints are tried on
BandAmounts == {0, 1, 999, 1000, 19999000, 2000000000}

\* C28: with a binary flag and a secondary production between 0 and
\* gamma_sec the four band constraints hold, whatever the two values are,
\* and so in every year and step of every assignment.
C28_BandAddsNoRestriction ==
  /\ \A bd_n \in Binary : \A eusecondary \in BandAmounts :
       /\ upper_bound_z_constraint_sec(bd_n, eusecondary)
       /\ upper_bound_z_q1_eq_sec(bd_n, eusecondary)
       /\ lower_bound_z_eq_sec(bd_n, eusecondary)
       /\ non_negativity_z_eq_sec(bd_n, eusecondary)
  /\ \A y \in Years : \A n \in nsteps_sec :
       /\ upper_bound_z_constraint_sec(BD_sec[y][n],
                                       capacity_ext_eusecondary[y])
       /\ upper_bound_z_q1_eq_sec(BD_sec[y][n], capacity_ext_eusecondary[y])
       /\ lower_bound_z_eq_sec(BD_sec[y][n], capacity_ext_eusecondary[y])
       /\ non_negativity_z_eq_sec(BD_sec[y][n], capacity_ext_eusecondary[y])

\* a year with secondary production in which one flag is active and the
\* others are not
C28_Witness ==
  \E y \in Years :
    /\ capacity_ext_eusecondary[y] > 0
    /\ BD_sec[y][2] = 1
    /\ BD_sec[y][1] = 0

\* C29: with f_mining / f_recycling > 0, when the secondary production of a
\* year before y > y0 is 0, the secondary production of y and of every later
\* year of the window is 0.
C29_NoRestartOfSecondary ==
  (f_recycling > 0 /\ f_mining > 0) =>
    \A y \in Years : \A later \in Years :
      (y > y0 /\ capacity_ext_eusecondary[y - 1] = 0 /\ later >= y) =>
        capacity_ext_eusecondary[later] = 0

\* a later year without secondary production although the ramp limit and
\* the scrap at hand would allow it
C29_Witness ==
  \E y \in Years :
    /\ y > y0
    /\ capacity_ext_eusecondary[y - 1] = 0
    /\ TimedelayEUSecondaryProductionRule(y, 1000)
    /\ f_recycling * capacity_scrap_total[y] >= f_mining * 1000

\* C30: in every year y of the window the scrap recycled in the window's
\* years up to y is at most the scrap of the decommissioning of those years.
C30_RecyclingWithinScrap ==
  \A y \in Years :
    SumUpTo(capacity_scrap_rec, y0, y) <= SumUpTo(capacity_scrap_dec, y0, y)

\* a year in which nearly all the scrap at hand is recycled
C30_Witness ==
  \E y \in Years :
    /\ capacity_scrap_rec[y] > 0
    /\ capacity_scrap_total[y] < capacity_scrap_rec[y]

\* C22: the end-to-end example (EU27, solarPV, window 2025 to 2026,
\* InitialCapacity 1000, InitialStockpile 0, installable ceiling 500) has a
\* feasible solution, with capacity_ext[2026] = 1000 + capacity_ext_new[2026]
\* - capacity_dec[2026] and capacity_dec[2026] the exogenous floor: the
\* solver can assign the first year of the window, and an assigned 2026 has
\* these values.
C22_ExampleHasSolution ==
  input_files = "example" =>
    /\ (Solving /\ Years = {}) => ENABLED AssignYear
    /\ 2026 \in Years =>
         /\ capacity_ext[2026]
              = 1000 + capacity_ext_new[2026] - capacity_dec[2026]
         /\ capacity_dec[2026] = exogenous(tech)

\* C23: in rolling mode every window is as long as --window says, or ends
\* at the end of the horizon.
C23_WindowLengthFromArgs ==
  args.mode = "rolling" =>
    \A k \in 1..Len(windows) :
      \/ windows[k][2] - windows[k][1] + 1 = args.window
      \/ /\ windows[k][2] = end_year
         /\ windows[k][2] - windows[k][1] + 1 <= args.window

\* C24: when the year before a year after y0 is missing from the window's
\* years, the window is not solved: no year is assigned, no termination
\* condition is recorded, and the run ends with the lookup error.
C24_MissingPriorYearIsFatal ==
  /\ (\E y \in m_stf : y > y0 /\ y - 1 \notin m_stf) =>
       /\ Years = {}
       /\ Len(termination_condition) = i
       /\ error \in {"none", "KeyError"}
  /\ error = "KeyError" => \E y \in m_stf : y > y0 /\ y - 1 \notin m_stf

\* the run has ended with the lookup error of a window with a missing year
C24_Witness ==
  /\ error = "KeyError"
  /\ y0 + 1 \notin m_stf /\ y0 + 2 \in m_stf

\* the windows whose results are in all_carryovers
C27_Recorded == IF result_file # None THEN 0..i ELSE 0..(i - 1)

\* the recorded windows that cover the year and were solved
C27_Containing(year) ==
  {k \in C27_Recorded :
     /\ termination_condition[k + 1] = "optimal"
     /\ windows[k + 1][1] <= year /\ year <= windows[k + 1][2]}

C27_StitchedTrajectory ==
  /\ [](\A year \in windows[1][1] .. windows[1][2] :
          IF C27_Containing(year) = {}
          THEN year \notin DOMAIN all_carryovers
          ELSE /\ year \in DOMAIN all_carryovers
               /\ \A k \in C27_Containing(year) :
                    all_carryovers[year][1] >= k
               /\ all_carryovers[year][1] \in C27_Containing(year))
  /\ [](result_file # None => result_file = (var_name :> all_carryovers))
  /\ [][all_carryovers' # all_carryovers =>
          /\ \A year \in Years :
               all_carryovers'[year] = <<i, pricereduction_sec[year]>>
          /\ \A year \in DOMAIN all_carryovers \ Years :
               all_carryovers'[year] = all_carryovers[year]
          /\ DOMAIN all_carryovers' = DOMAIN all_carryovers \cup Years]_vars

\* the stitched workbook of a run of two solved windows: the first year
\* from the first window, the last year from the second
C27_Witness ==
  /\ result_file # None
  /\ i >= 1
  /\ \A k \in 1..Len(termination_condition) :
       termination_condition[k] = "optimal"
  /\ result_file[var_name][windows[1][1]][1] = 0
  /\ result_file[var_name][windows[1][2]][1] = i
  /\ result_file[var_name][windows[1][2]][2] > 0

(***************************************************************************)
(* C25.  wait_for_excel_sheets always terminates: it ends by returning     *)
(* True or by raising TimeoutError.  It returns True only from a poll in   *)
(* which the workbook opened and held every expected sheet; a workbook     *)
(* that does not open sends it to sleep and to the next test of the        *)
(* timeout; it raises TimeoutError only at that test, and always there,    *)
(* once the timeout has elapsed; and when it has returned, the sheets it   *)
(* observed in its last poll include every expected sheet.                 *)
(***************************************************************************)
C25_WaitStep ==
  /\ (pc # "True" /\ pc' = "True") =>
       /\ pc = "try"
       /\ path_workbook.opens
       /\ expected_sheets \subseteq path_workbook.sheetnames
  /\ (pc = "try" /\ ~path_workbook.opens /\ pc' # pc) => pc' = "sleep"
  /\ (pc = "sleep" /\ pc' # pc) => pc' = "while" /\ elapsed' > elapsed
  /\ (pc # "TimeoutError" /\ pc' = "TimeoutError") =>
       pc = "while" /\ elapsed >= timeout
  /\ (pc = "while" /\ elapsed >= timeout /\ pc' # pc) => pc' = "TimeoutError"

C25_WaitTerminates ==
  /\ [][C25_WaitStep]_vars
  /\ [](pc = "True" => expected_sheets \subseteq sheetnames)
  /\ <>(pc \in {"True", "TimeoutError"})

\* the function has returned True after a poll that failed: every poll
\* takes at most one unit, so two units have passed only after a sleep
C25_Witness ==
  /\ pc = "True"
  /\ elapsed >= 2
  /\ expected_sheets = SheetNames

====
